---- MODULE Spec2Model ----
(***************************************************************************)
(* Model of the ArashTarun drive agent (src/src/ArashTarun.py).            *)
(*                                                                         *)
(* The agent is called once per tick (get_next_move).  With an empty plan  *)
(* it selects the closest goal and runs a greedy best-first search over    *)
(* the grid (dfs_solve_path_to_goal); afterwards it replays the stored     *)
(* plan one state per tick, idling when the next state is occupied by      *)
(* another drive.                                                          *)
(*                                                                         *)
(* A grid state DriveState(x, y) is the tuple <<x, y>>.  Python lists are  *)
(* sequences; Python's 0-based index i is position i + 1 of a sequence.    *)
(* path_move_index keeps the 0-based value of the code.                    *)
(*                                                                         *)
(* The distances of the code are math.sqrt of a sum of two integer         *)
(* squares.  sqrt is strictly increasing on the integers that occur, so    *)
(* min() and index() over the square roots pick the same element as over   *)
(* the squared distances, which the model uses.                            *)
(***************************************************************************)
EXTENDS Integers, Sequences, FiniteSets, TLC

VARIABLES
    need_to_find_target_pod, \* self.need_to_find_target_pod (is_advanced_mode)
    path,                    \* self.path
    path_move_index,         \* self.path_move_index
    field_boundaries,        \* sensor_data[FIELD_BOUNDARIES], static during a game
    player_location,         \* sensor_data[PLAYER_LOCATION], moved by the simulator
    pc,                      \* "ready": between two calls; "dfs": inside the planner loop
    start_state,             \* dfs_solve_path_to_goal: start_state
    goal,                    \* get_next_move: goal
    goal_locations,          \* the goal list held by a select_closest_goal call on its own
    paths,                   \* dfs_solve_path_to_goal: paths (the worklist)
    visited_states,          \* dfs_solve_path_to_goal: visited_states
    warned,                  \* the planner printed 'WARN Could not find solution'
    goal_reachable,          \* ghost: the goal can be reached from the planner's start
    result                   \* how the last get_next_move call ended

vars == <<need_to_find_target_pod, path, path_move_index, field_boundaries,
          player_location, pc, start_state, goal, goal_locations, paths,
          visited_states, warned, goal_reachable, result>>

(***************************************************************************)
(* Bounds of the model.                                                    *)
(***************************************************************************)
\* The field is the cells (0..MaxX) x (0..MaxY), walled in on all four sides.
MaxX == 2
MaxY == 1
\* At most MaxBlocked field boundary cells lie inside the field.
MaxBlocked == 1
\* A snapshot lists 1..MaxGoals goals and at most MaxDrives other drives.
MaxGoals == 2
MaxDrives == 1

Cells == (0..MaxX) \X (0..MaxY)

\* The wall around the field: FIELD_BOUNDARIES = [[-1, -1], [-1, 0], ...].
Perimeter ==
    {c \in (-1..(MaxX + 1)) \X (-1..(MaxY + 1)) :
        c[1] \in {-1, MaxX + 1} \/ c[2] \in {-1, MaxY + 1}}

InteriorWalls == {b \in SUBSET Cells : Cardinality(b) <= MaxBlocked}

FieldBoundaryChoices == {Perimeter \cup b : b \in InteriorWalls}

GoalLists == UNION {[1..n -> Cells] : n \in 1..MaxGoals}

DriveLocationChoices == {d \in SUBSET Cells : Cardinality(d) <= MaxDrives}

NoState == <<>>

(***************************************************************************)
(* Move and state primitives (src.Constants.DriveMove, src.DriveState).    *)
(***************************************************************************)
DriveMove == <<"NONE", "UP", "DOWN", "LEFT", "RIGHT", "LIFT_POD", "DROP_POD">>

get_next_state_from_move(state, move) ==
    CASE move = "UP"    -> <<state[1], state[2] + 1>>
      [] move = "DOWN"  -> <<state[1], state[2] - 1>>
      [] move = "RIGHT" -> <<state[1] + 1, state[2]>>
      [] move = "LEFT"  -> <<state[1] - 1, state[2]>>
      [] OTHER          -> state

(***************************************************************************)
(* Python list primitives.                                                 *)
(***************************************************************************)
Range(s) == {s[i] : i \in 1..Len(s)}

\* min(dists): the least element of a non-empty list, by one pass over it
RECURSIVE MinFrom(_, _, _)
MinFrom(s, i, least) ==
    IF i > Len(s) THEN least
    ELSE MinFrom(s, i + 1, IF s[i] < least THEN s[i] ELSE least)

PyMin(s) == MinFrom(s, 2, s[1])

\* dists.index(v): the first position holding v (1-based here)
RECURSIVE IndexFrom(_, _, _)
IndexFrom(s, v, i) == IF s[i] = v THEN i ELSE IndexFrom(s, v, i + 1)

PyIndex(s, v) == IndexFrom(s, v, 1)

\* paths.pop(i): the list without position i
PyPop(s, i) == [k \in 1..(Len(s) - 1) |-> IF k < i THEN s[k] ELSE s[k + 1]]

\* whether list[i] is defined for the 0-based index i (negative i counts from the end)
PyIndexOK(s, i) == -Len(s) <= i /\ i < Len(s)

\* list[i] for the 0-based index i
PyAt(s, i) == IF i >= 0 THEN s[i + 1] ELSE s[Len(s) + i + 1]

Last(s) == s[Len(s)]

\* the squared Euclidean distance under the code's math.sqrt
Dist2(a, b) == (a[1] - b[1]) * (a[1] - b[1]) + (a[2] - b[2]) * (a[2] - b[2])

(***************************************************************************)
(* Goal selector.                                                          *)
(***************************************************************************)
\* select_closest_goal with the last, not the first, of the closest goals
select_closest_goal_last(goal_list, current_location) ==
    LET dists == [i \in 1..Len(goal_list) |-> Dist2(goal_list[i], current_location)]
        least == PyMin(dists)
    IN  goal_list[CHOOSE i \in 1..Len(dists) :
                      dists[i] = least /\ \A j \in (i + 1)..Len(dists) : dists[j] # least]

select_closest_goal(goal_list, current_location) ==
    LET dists == [i \in 1..Len(goal_list) |-> Dist2(goal_list[i], current_location)]
    IN  goal_list[PyIndex(dists, PyMin(dists))]

(***************************************************************************)
(* Planner.                                                                *)
(***************************************************************************)
\* select_open_node as its first line, left as a comment in the code, has it:
\* paths.pop(len(paths)-1)
select_open_node_pop_last(ps, g) == Len(ps)

\* the position of the path select_open_node pops from the worklist
select_open_node(ps, g) ==
    LET dists == [i \in 1..Len(ps) |-> Dist2(g, Last(ps[i]))]
    IN  PyIndex(dists, PyMin(dists))

\* list_all_next_possible_states stopping short of the last three moves
list_first_moves_only(state) ==
    [i \in 1..(Len(DriveMove) - 3) |->
        get_next_state_from_move(state, DriveMove[Len(DriveMove) - 2 - i])]

\* list_all_next_possible_states with next_states.append(...) in the place of
\* next_states.insert(0, ...): the enumeration order kept
list_all_next_possible_states_appended(state) ==
    [i \in 1..Len(DriveMove) |-> get_next_state_from_move(state, DriveMove[i])]

\* next_states.insert(0, ...) for each move: the enumeration order reversed
list_all_next_possible_states(state) ==
    [i \in 1..Len(DriveMove) |->
        get_next_state_from_move(state, DriveMove[Len(DriveMove) + 1 - i])]

\* is_state_in_bounds looking up the tuple (x, y) in the list of [x, y] lists,
\* none of which equals a tuple
is_state_in_bounds_tuple(state, boundaries) ==
    state \notin {b \in boundaries : FALSE}

\* is_state_in_bounds reading self.field_limits, the list the constructor leaves
\* empty, in the place of the snapshot's field boundaries
is_state_in_bounds_field_limits(state, boundaries) == state \notin {}

is_state_in_bounds(state, boundaries) == state \notin boundaries

\* the goal test with goal[0] in the place of goal[1]
is_goal_state_x_twice(state, g) == state[1] = g[1] /\ state[2] = g[1]

\* curr_state.x == goal[0] and curr_state.y == goal[1]
is_goal_state(state, g) == state[1] = g[1] /\ state[2] = g[2]

\* the for loop without its test `state not in visited_states`
new_paths_no_visited_test(current_path, visited, boundaries) ==
    LET next_states == list_all_next_possible_states(Last(current_path))
        keep(s) == is_state_in_bounds(s, boundaries)
        kept == SelectSeq(next_states, keep)
    IN  [i \in 1..Len(kept) |-> Append(current_path, kept[i])]

\* the for loop run before visited_states.add(curr_state), not after it
new_paths_add_late(current_path, visited, boundaries) ==
    LET next_states == list_all_next_possible_states(Last(current_path))
        keep(s) == s \notin (visited \ {Last(current_path)})
                      /\ is_state_in_bounds(s, boundaries)
        kept == SelectSeq(next_states, keep)
    IN  [i \in 1..Len(kept) |-> Append(current_path, kept[i])]

\* the paths the for loop of one iteration appends to the worklist
new_paths(current_path, visited, boundaries) ==
    LET next_states == list_all_next_possible_states(Last(current_path))
        keep(s) == s \notin visited /\ is_state_in_bounds(s, boundaries)
        kept == SelectSeq(next_states, keep)
    IN  [i \in 1..Len(kept) |-> Append(current_path, kept[i])]

(***************************************************************************)
(* Executor.                                                               *)
(***************************************************************************)
will_next_state_collide(state, drive_locations) ==
    \E rob_locs \in drive_locations : rob_locs[1] = state[1] /\ rob_locs[2] = state[2]

\* the for loop of get_move_for_next_state_in_path from move number i on: the
\* first move leading from current_state to next_state, NONE (with a warning)
\* when there is none
RECURSIVE move_from(_, _, _)
move_from(current_state, next_state, i) ==
    IF i > Len(DriveMove) THEN "NONE"
    ELSE IF get_next_state_from_move(current_state, DriveMove[i]) = next_state
         THEN DriveMove[i]
         ELSE move_from(current_state, next_state, i + 1)

\* the loop with current_state read after the cursor was advanced
move_between_late(current_state, next_state) ==
    move_from(next_state, next_state, 1)

move_between(current_state, next_state) == move_from(current_state, next_state, 1)

\* the collision branch without its decrement
collision_index_kept(i) == i

\* the cursor after a predicted collision
collision_index(i) == i - 1

\* lines 69-75 with lines 87 and 88 in each other's place: next_state is read
\* before the cursor is advanced
execute_increment_late(p, i, drive_locations) ==
    IF ~PyIndexOK(p, i) THEN [ret |-> "IndexError", idx |-> i]
    ELSE LET current_state == PyAt(p, i)
             next_state == PyAt(p, i)
         IN  IF will_next_state_collide(next_state, drive_locations)
             THEN [ret |-> "NONE", idx |-> collision_index(i + 1)]
             ELSE [ret |-> move_between(current_state, next_state), idx |-> i + 1]

\* lines 69-75 of get_next_move on plan p with cursor i: what the call returns
\* (or the exception that leaves it) and the cursor it leaves behind
execute(p, i, drive_locations) ==
    IF ~PyIndexOK(p, i) THEN [ret |-> "IndexError", idx |-> i]
    ELSE IF ~PyIndexOK(p, i + 1) THEN [ret |-> "IndexError", idx |-> i + 1]
    ELSE LET current_state == PyAt(p, i)
             next_state == PyAt(p, i + 1)
         IN  IF will_next_state_collide(next_state, drive_locations)
             THEN [ret |-> "NONE", idx |-> collision_index(i + 1)]
             ELSE [ret |-> move_between(current_state, next_state), idx |-> i + 1]

\* the simulator applies the returned move to the player's drive
apply_move(location, ret) ==
    IF ret \in Range(DriveMove) THEN get_next_state_from_move(location, ret)
    ELSE location

(***************************************************************************)
(* Reachability on the field, for the ghost variable goal_reachable.       *)
(***************************************************************************)
Coords == (-1..(MaxX + 1)) \X (-1..(MaxY + 1))

Manhattan(a, b) ==
    (IF a[1] >= b[1] THEN a[1] - b[1] ELSE b[1] - a[1]) +
    (IF a[2] >= b[2] THEN a[2] - b[2] ELSE b[2] - a[2])

\* the cells of free that can be reached from the cells of seen by unit steps
\* through cells of free
RECURSIVE Flood(_, _)
Flood(seen, free) ==
    LET more == {c \in free \ seen : \E s \in seen : Manhattan(c, s) = 1}
    IN  IF more = {} THEN seen ELSE Flood(seen \cup more, free)

(***************************************************************************)
(* The state machine.                                                      *)
(*                                                                         *)
(* A snapshot's goal list is read once, by select_closest_goal, and its    *)
(* drive locations once, by will_next_state_collide: a call depends on     *)
(* them only through the goal selected and through what lines 69-75 make   *)
(* of the drive locations.  Next draws the snapshot from GoalLists and     *)
(* DriveLocationChoices and branches on these outcomes.                    *)
(***************************************************************************)
Init ==
    /\ need_to_find_target_pod \in BOOLEAN
    /\ path = <<>>
    /\ path_move_index = 0
    /\ field_boundaries \in FieldBoundaryChoices
    /\ player_location \in Cells \ field_boundaries
    /\ pc = "ready"
    /\ start_state = NoState
    /\ goal = NoState
    /\ goal_locations = <<>>
    /\ paths = <<>>
    /\ visited_states = {}
    /\ warned = FALSE
    /\ goal_reachable = FALSE
    /\ result = "-"

\* the advanced-mode branch reporting the missing solver and going on to return
\* NONE, in the place of raising
AdvancedCallSwallowed ==
    /\ pc = "ready"
    /\ Len(path) = 0
    /\ need_to_find_target_pod
    /\ result' = "NONE"
    /\ UNCHANGED <<need_to_find_target_pod, path, path_move_index, field_boundaries,
                   player_location, pc, start_state, goal, goal_locations, paths,
                   visited_states, warned, goal_reachable>>

\* get_next_move, empty plan, advanced mode: raises
AdvancedCall ==
    /\ pc = "ready"
    /\ Len(path) = 0
    /\ need_to_find_target_pod
    /\ result' = "Exception"
    /\ UNCHANGED <<need_to_find_target_pod, path, path_move_index, field_boundaries,
                   player_location, pc, start_state, goal, goal_locations, paths,
                   visited_states, warned, goal_reachable>>

\* get_next_move, empty plan, basic mode, with selected_goal the goal
\* select_closest_goal returned: enter the planner
EnterPlanner(selected_goal) ==
    /\ pc = "ready"
    /\ Len(path) = 0
    /\ ~need_to_find_target_pod
    /\ goal' = selected_goal
    /\ start_state' = player_location
    /\ visited_states' = {}
    /\ paths' = << <<player_location>> >>
    /\ warned' = FALSE
    /\ goal_reachable' =
          (selected_goal \in Flood({player_location}, Coords \ field_boundaries))
    /\ pc' = "dfs"
    /\ UNCHANGED <<need_to_find_target_pod, path, path_move_index, field_boundaries,
                   player_location, goal_locations, result>>

\* get_next_move, empty plan, basic mode, on a snapshot with these goals
PlanCall(goals) == EnterPlanner(select_closest_goal(goals, player_location))

\* get_next_move returns with plan p stored and outcome out of lines 69-75;
\* the simulator applies the returned move
Return(p, out) ==
    /\ path' = p
    /\ path_move_index' = out.idx
    /\ result' = out.ret
    /\ player_location' = apply_move(player_location, out.ret)
    /\ pc' = "ready"
    /\ paths' = <<>>
    /\ visited_states' = {}
    /\ UNCHANGED <<need_to_find_target_pod, field_boundaries, start_state, goal,
                   goal_locations, goal_reachable>>

\* the path the next iteration of the planner loop selects
selected_path == paths[select_open_node(paths, goal)]

\* one iteration of the planner loop that expands the selected path
DfsExpand ==
    /\ pc = "dfs"
    /\ Len(paths) > 0
    /\ \E i \in {select_open_node(paths, goal)} :
         \E current_path \in {paths[i]} :
           \E curr_state \in {Last(current_path)} :
             /\ ~is_goal_state(curr_state, goal)
             /\ visited_states' = visited_states \cup {curr_state}
             /\ paths' = PyPop(paths, i) \o
                         new_paths(current_path, visited_states', field_boundaries)
    /\ UNCHANGED <<need_to_find_target_pod, path, path_move_index, field_boundaries,
                   player_location, pc, start_state, goal, goal_locations, warned,
                   goal_reachable, result>>

\* the iteration that selects a path ending at the goal: the plan is stored and
\* get_next_move goes on to lines 69-75 with outcome out
DfsFoundWith(current_path, out) ==
    /\ pc = "dfs"
    /\ Len(paths) > 0
    /\ is_goal_state(Last(current_path), goal)
    /\ Return(current_path, out)
    /\ UNCHANGED warned

DfsFound(drive_locations) ==
    /\ pc = "dfs"
    /\ Len(paths) > 0
    /\ DfsFoundWith(selected_path,
                    execute(selected_path, path_move_index, drive_locations))

\* the worklist is empty: the planner warns, the plan stays as it was, and
\* get_next_move goes on to lines 69-75 with outcome out
DfsFailWith(out) ==
    /\ pc = "dfs"
    /\ Len(paths) = 0
    /\ warned' = TRUE
    /\ Return(path, out)

DfsFail(drive_locations) ==
    DfsFailWith(execute(path, path_move_index, drive_locations))

\* get_next_move with a stored plan that drops the plan on a predicted
\* collision, so that the next call plans again
StepCallWithReplan(out) ==
    /\ pc = "ready"
    /\ Len(path) # 0
    /\ path' = IF out.ret = "NONE" THEN <<>> ELSE path
    /\ path_move_index' = IF out.ret = "NONE" THEN 0 ELSE out.idx
    /\ result' = out.ret
    /\ player_location' = apply_move(player_location, out.ret)
    /\ UNCHANGED <<need_to_find_target_pod, field_boundaries, pc, start_state,
                   goal, goal_locations, paths, visited_states, warned,
                   goal_reachable>>

\* get_next_move with a stored plan, lines 69-75 ending in outcome out
StepCallWith(out) ==
    /\ pc = "ready"
    /\ Len(path) # 0
    /\ path_move_index' = out.idx
    /\ result' = out.ret
    /\ player_location' = apply_move(player_location, out.ret)
    /\ UNCHANGED <<need_to_find_target_pod, path, field_boundaries, pc, start_state,
                   goal, goal_locations, paths, visited_states, warned,
                   goal_reachable>>

StepCall(drive_locations) ==
    StepCallWith(execute(path, path_move_index, drive_locations))

\* the goals select_closest_goal can return to a player at location p, over the
\* snapshots' goal lists
SelectedGoals(p) ==
    {g \in Cells : \E goals \in GoalLists : select_closest_goal(goals, p) = g}

\* the outcomes of lines 69-75 on plan p over the snapshots' drive locations
Outcomes(p) == {execute(p, path_move_index, d) : d \in DriveLocationChoices}

\* get_next_move on a snapshot, entered with an empty plan in basic mode
PlanTick ==
    /\ pc = "ready" /\ Len(path) = 0 /\ ~need_to_find_target_pod
    /\ \E g \in SelectedGoals(player_location) : EnterPlanner(g)

\* the planner finds the goal and get_next_move returns
FoundTick ==
    /\ pc = "dfs" /\ Len(paths) > 0
    /\ \E current_path \in {selected_path} :
         /\ is_goal_state(Last(current_path), goal)
         /\ \E out \in Outcomes(current_path) : DfsFoundWith(current_path, out)

\* the planner gives up and get_next_move goes on without a plan
FailTick ==
    /\ pc = "dfs" /\ Len(paths) = 0
    /\ \E out \in Outcomes(path) : DfsFailWith(out)

\* get_next_move on a snapshot, entered with a stored plan
StepTick ==
    /\ pc = "ready" /\ Len(path) # 0
    /\ \E out \in Outcomes(path) : StepCallWith(out)

Next ==
    \/ AdvancedCall
    \/ PlanTick
    \/ DfsExpand
    \/ FoundTick
    \/ FailTick
    \/ StepTick

Spec == Init /\ [][Next]_vars

\* The planner loop is ordinary sequential code: once entered it runs on.
PlannerRuns == DfsExpand \/ FoundTick \/ FailTick

FairSpec == Spec /\ WF_vars(PlannerRuns)

(***************************************************************************)
(* The goal selector on its own: select_closest_goal applied to a goal     *)
(* list and a current location.                                            *)
(***************************************************************************)
InitGoal ==
    /\ need_to_find_target_pod \in BOOLEAN
    /\ path = <<>>
    /\ path_move_index = 0
    /\ field_boundaries = Perimeter
    /\ player_location \in Cells
    /\ pc = "select"
    /\ start_state = NoState
    /\ goal = NoState
    /\ goal_locations \in GoalLists
    /\ paths = <<>>
    /\ visited_states = {}
    /\ warned = FALSE
    /\ goal_reachable = FALSE
    /\ result = "-"

SelectGoal ==
    /\ pc = "select"
    /\ goal' = select_closest_goal(goal_locations, player_location)
    /\ pc' = "selected"
    /\ UNCHANGED <<need_to_find_target_pod, path, path_move_index, field_boundaries,
                   player_location, start_state, goal_locations, paths,
                   visited_states, warned, goal_reachable, result>>

NextGoal == SelectGoal

SpecGoal == InitGoal /\ [][NextGoal]_vars

(***************************************************************************)
(* The agent alone on the field: every snapshot's DRIVE_LOCATIONS is       *)
(* empty.                                                                  *)
(***************************************************************************)
NoDrives == {}

FoundTickAlone ==
    /\ pc = "dfs" /\ Len(paths) > 0
    /\ DfsFound(NoDrives)

FailTickAlone ==
    /\ pc = "dfs" /\ Len(paths) = 0
    /\ DfsFail(NoDrives)

StepTickAlone ==
    /\ pc = "ready" /\ Len(path) # 0
    /\ StepCall(NoDrives)

NextAlone ==
    \/ AdvancedCall
    \/ PlanTick
    \/ DfsExpand
    \/ FoundTickAlone
    \/ FailTickAlone
    \/ StepTickAlone

SpecAlone == Init /\ [][NextAlone]_vars

(***************************************************************************)
(* Notions the properties are stated with.                                 *)
(***************************************************************************)
GoalReachable == goal_reachable

\* the planner has just been entered: its loop has not run yet
PlannerEntered == pc = "dfs" /\ visited_states = {} /\ Len(paths) = 1

RealMoves == {"UP", "DOWN", "LEFT", "RIGHT"}

\* the move whose delta leads from cell a to cell b
MoveOfDelta(a, b) ==
    CASE b = <<a[1], a[2] + 1>> -> "UP"
      [] b = <<a[1], a[2] - 1>> -> "DOWN"
      [] b = <<a[1] + 1, a[2]>> -> "RIGHT"
      [] b = <<a[1] - 1, a[2]>> -> "LEFT"
      [] OTHER -> "no move"

\* a get_next_move call returns in this step
CallReturns == pc' = "ready"

(***************************************************************************)
(* C1: a stored plan starts at the planner's start state (the player's     *)
(* location when the planner ran), ends at the goal, and its consecutive   *)
(* states are one unit step in x or in y apart.                            *)
(***************************************************************************)
C1_PlanLinksStartToGoal ==
    Len(path) > 0 =>
        /\ path[1] = start_state
        /\ Last(path) = goal
        /\ \A i \in 1..(Len(path) - 1) : Manhattan(path[i], path[i + 1]) = 1

C1_Witness ==
    /\ pc = "ready"
    /\ Len(path) >= 4
    /\ \E i \in 1..(Len(path) - 2) :
          path[i][1] # path[i + 1][1] /\ path[i + 1][2] # path[i + 2][2]

(***************************************************************************)
(* C2: whenever the planner runs for a goal that can be reached from the   *)
(* start through cells that are no field boundary, its loop terminates     *)
(* with a plan to the goal stored, and without the failure warning.        *)
(***************************************************************************)
C2_ReachableGoalIsPlanned ==
    (PlannerEntered /\ GoalReachable)
        ~> (pc = "ready" /\ Len(path) > 0 /\ Last(path) = goal /\ ~warned)

C2_Witness ==
    /\ pc = "ready"
    /\ Len(path) > 0
    /\ ~warned
    /\ GoalReachable
    /\ field_boundaries # Perimeter
    /\ Len(path) > Manhattan(start_state, goal) + 1

(***************************************************************************)
(* C3: whenever the planner runs for a goal that cannot be reached from    *)
(* the start (a goal on a field boundary cell included), its loop          *)
(* terminates with the worklist empty, the failure warning printed and     *)
(* the stored plan still empty.                                            *)
(***************************************************************************)
C3_UnreachableGoalFails ==
    (PlannerEntered /\ ~GoalReachable)
        ~> (pc = "ready" /\ warned /\ Len(path) = 0 /\ Len(paths) = 0)

C3_Witness ==
    /\ pc = "ready"
    /\ warned
    /\ ~GoalReachable
    /\ goal \in field_boundaries
    /\ Len(path) = 0

(***************************************************************************)
(* C4: after a tick on which the plan was empty and the planner failed,    *)
(* the call has returned NONE, the plan is empty and the cursor is 0.      *)
(***************************************************************************)
C4_FailedPlanningIdles ==
    (pc = "ready" /\ warned) =>
        (result = "NONE" /\ Len(path) = 0 /\ path_move_index = 0)

(***************************************************************************)
(* C5: a call whose next plan state plan[cursor+1] is among the snapshot's *)
(* drive locations returns NONE and leaves the cursor where it was; a call *)
(* that follows such an idle tick and finds no drive on that cell returns  *)
(* the move from plan[cursor] to plan[cursor+1].                           *)
(***************************************************************************)
C5_CollisionIdlesThenResumes ==
    [][ /\ (pc = "ready" /\ Len(path) > 0 /\ PyIndexOK(path, path_move_index + 1)) =>
            \A d \in DriveLocationChoices :
                StepCall(d) =>
                    /\ PyAt(path, path_move_index + 1) \in d =>
                          (result' = "NONE" /\ path_move_index' = path_move_index)
                    /\ (result = "NONE" /\ PyAt(path, path_move_index + 1) \notin d) =>
                          /\ result' \in RealMoves
                          /\ result' = MoveOfDelta(PyAt(path, path_move_index),
                                                   PyAt(path, path_move_index + 1))
        /\ (pc = "dfs" /\ Len(paths) > 0 /\ pc' = "ready") =>
            \A d \in DriveLocationChoices :
                (DfsFound(d) /\ Len(path') >= 2 /\ path'[2] \in d) =>
                    (result' = "NONE" /\ path_move_index' = path_move_index)
      ]_vars

C5_Witness ==
    /\ pc = "ready"
    /\ Len(path) >= 3
    /\ path_move_index = 1
    /\ result = "NONE"

(***************************************************************************)
(* C6: when the cursor stands on the last index of the plan, the next call *)
(* enters the planner again.                                               *)
(***************************************************************************)
C6_ExhaustedPlanReplans ==
    [][ (pc = "ready" /\ Len(path) > 0 /\ path_move_index = Len(path) - 1)
            => pc' = "dfs" ]_vars

(***************************************************************************)
(* C7: in basic mode every call returns a value of the Move enumeration.   *)
(***************************************************************************)
C7_BasicModeReturnsAMove ==
    (~need_to_find_target_pod /\ result # "-") => result \in Range(DriveMove)

(***************************************************************************)
(* C8: alone on the field, with a goal that is reachable from the start    *)
(* and differs from it, each of the first len(plan)-1 calls (the planning  *)
(* call included) returns a move other than NONE, advances the cursor by   *)
(* one and moves the player by that move's delta along the plan, so that   *)
(* after len(plan)-1 calls the player's displacement is goal minus start.  *)
(***************************************************************************)
C8_AloneTheMovesLeadToTheGoal ==
    /\ [][ (CallReturns /\ Len(path') >= 2 /\ path_move_index < Len(path') - 1) =>
              /\ result' \in RealMoves
              /\ path_move_index' = path_move_index + 1
              /\ player_location' = PyAt(path', path_move_index')
              /\ result' = MoveOfDelta(player_location, player_location')
          ]_vars
    /\ [](( pc = "ready" /\ Len(path) >= 2 /\ path_move_index = Len(path) - 1) =>
              /\ player_location[1] - start_state[1] = goal[1] - start_state[1]
              /\ player_location[2] - start_state[2] = goal[2] - start_state[2])

C8_Witness ==
    /\ pc = "ready"
    /\ field_boundaries = Perimeter
    /\ start_state = <<0, 0>>
    /\ goal = <<2, 0>>
    /\ path_move_index = 2
    /\ result = "RIGHT"
    /\ player_location = <<2, 0>>

(***************************************************************************)
(* C9: select_closest_goal returns a goal of the list whose squared        *)
(* distance to the current location is the least of the list, and the      *)
(* first of the list among the goals at that distance.                     *)
(***************************************************************************)
C9_ClosestGoalFirstOnTies ==
    pc = "selected" =>
        \E i \in 1..Len(goal_locations) :
            /\ goal = goal_locations[i]
            /\ \A j \in 1..Len(goal_locations) :
                  Dist2(goal_locations[i], player_location)
                      <= Dist2(goal_locations[j], player_location)
            /\ \A j \in 1..(i - 1) :
                  Dist2(goal_locations[j], player_location)
                      > Dist2(goal_locations[i], player_location)

C9_Witness ==
    /\ pc = "selected"
    /\ goal_locations = << <<0, 1>>, <<1, 0>> >>
    /\ player_location = <<0, 0>>
    /\ goal = <<0, 1>>

(***************************************************************************)
(* C10: no stored plan holds a field boundary cell after its first state,  *)
(* and the player, moved only by the returned moves, never stands on a     *)
(* field boundary cell.                                                    *)
(***************************************************************************)
C10_PlanAvoidsBoundaries ==
    /\ \A i \in 2..Len(path) : path[i] \notin field_boundaries
    /\ player_location \notin field_boundaries

C10_Witness ==
    /\ pc = "ready"
    /\ Len(path) > 0
    /\ field_boundaries # Perimeter
    /\ Len(path) > Manhattan(start_state, goal) + 1
    /\ path_move_index = Len(path) - 1
    /\ player_location = goal

(***************************************************************************)
(* C11: in advanced mode a call with an empty plan ends in the exception   *)
(* of line 62, the planner is not entered, the plan stays empty and the    *)
(* cursor stays where it was; the agent is then in the state in which the  *)
(* next call takes the same branch.                                        *)
(***************************************************************************)
C11_AdvancedModeRaises ==
    /\ [][ need_to_find_target_pod =>
              /\ result' = "Exception"
              /\ pc' = "ready"
              /\ path' = path /\ Len(path') = 0
              /\ path_move_index' = path_move_index
              /\ paths' = paths /\ visited_states' = visited_states
              /\ start_state' = NoState
          ]_vars
    /\ []((need_to_find_target_pod /\ result = "Exception") =>
              (pc = "ready" /\ Len(path) = 0 /\ path_move_index = 0))

C11_Witness ==
    /\ need_to_find_target_pod
    /\ result = "Exception"
    /\ Len(path) = 0
    /\ path_move_index = 0

(***************************************************************************)
(* C12: a call with a stored plan, plan[cursor+1] inside the plan and no   *)
(* drive of the snapshot on plan[cursor+1] returns one of UP, DOWN, LEFT,  *)
(* RIGHT, namely the move whose delta leads from plan[cursor] to           *)
(* plan[cursor+1], and advances the cursor by exactly one.                 *)
(***************************************************************************)
C12_StepReturnsTheDeltaMove ==
    [][ (pc = "ready" /\ Len(path) > 0 /\ path_move_index >= 0
                     /\ path_move_index + 1 < Len(path)) =>
            \A d \in DriveLocationChoices :
                (PyAt(path, path_move_index + 1) \notin d /\ StepCall(d)) =>
                    /\ result' \in RealMoves
                    /\ get_next_state_from_move(PyAt(path, path_move_index), result')
                          = PyAt(path, path_move_index + 1)
                    /\ path_move_index' = path_move_index + 1
      ]_vars

C12_Witness ==
    /\ pc = "ready"
    /\ Len(path) >= 3
    /\ path_move_index = 2
    /\ result \in RealMoves
    /\ player_location = PyAt(path, 2)

(***************************************************************************)
(* C13: every iteration of the planner loop takes exactly one path out of  *)
(* the worklist: one whose last state is at the least distance from the    *)
(* goal over the last states of the worklist, the one at the lowest index  *)
(* among those at that distance; the other paths keep their order, ahead   *)
(* of whatever the iteration appends.                                      *)
(***************************************************************************)
C13_OpenNodeIsFirstClosest ==
    [][ (pc = "dfs" /\ Len(paths) > 0) =>
            \E i \in 1..Len(paths) :
                /\ \A j \in 1..Len(paths) :
                      Dist2(goal, Last(paths[i])) <= Dist2(goal, Last(paths[j]))
                /\ \A j \in 1..(i - 1) :
                      Dist2(goal, Last(paths[i])) < Dist2(goal, Last(paths[j]))
                /\ \/ /\ pc' = "ready"
                      /\ path' = paths[i]
                   \/ /\ pc' = "dfs"
                      /\ visited_states' = visited_states \cup {Last(paths[i])}
                      /\ Len(paths') >= Len(paths) - 1
                      /\ \A k \in 1..(i - 1) : paths'[k] = paths[k]
                      /\ \A k \in (i + 1)..Len(paths) : paths'[k - 1] = paths[k]
      ]_vars

\* the loop has run, and the worklist it selects from next holds two paths at
\* the least distance from the goal, neither of them at the head of the worklist
C13_Witness ==
    /\ pc = "dfs"
    /\ visited_states # {}
    /\ Len(paths) >= 3
    /\ \E i \in 2..Len(paths) :
          /\ \A j \in 1..Len(paths) :
                Dist2(goal, Last(paths[i])) <= Dist2(goal, Last(paths[j]))
          /\ \A j \in 1..(i - 1) :
                Dist2(goal, Last(paths[i])) < Dist2(goal, Last(paths[j]))
          /\ \E j \in (i + 1)..Len(paths) :
                Dist2(goal, Last(paths[i])) = Dist2(goal, Last(paths[j]))

(***************************************************************************)
(* C14: the planner is entered only by a call that finds the plan empty,   *)
(* and a call that finds a plan stored leaves it as it is, whether it      *)
(* returns a move, idles on a predicted collision or fails.                *)
(***************************************************************************)
C14_StoredPlanIsKept ==
    [][ /\ (pc = "ready" /\ pc' = "dfs") => Len(path) = 0
        /\ (pc = "ready" /\ Len(path) > 0) =>
              /\ path' = path
              /\ pc' = "ready"
              /\ paths' = paths
              /\ visited_states' = visited_states
              /\ start_state' = start_state /\ goal' = goal
      ]_vars

C14_Witness ==
    /\ pc = "ready"
    /\ Len(path) >= 3
    /\ path_move_index = Len(path) - 2
    /\ result = "NONE"
    /\ player_location = PyAt(path, path_move_index)

(***************************************************************************)
(* C15: an iteration that expands a state c appends to the end of the      *)
(* worklist the expanded path extended by the successors of c that are     *)
(* neither visited nor a field boundary, in the order right, left, down,   *)
(* up (the enumeration order reversed); c itself, the successor by NONE,   *)
(* is visited by then and is never appended.                               *)
(***************************************************************************)
C15_SuccessorsInReverseOrder ==
    [][ (pc = "dfs" /\ Len(paths) > 0 /\ pc' = "dfs") =>
            \E i \in 1..Len(paths) :
                /\ \A j \in 1..Len(paths) :
                      Dist2(goal, Last(paths[i])) <= Dist2(goal, Last(paths[j]))
                /\ \A j \in 1..(i - 1) :
                      Dist2(goal, Last(paths[i])) < Dist2(goal, Last(paths[j]))
                /\ LET c == Last(paths[i])
                       rldu == << <<c[1] + 1, c[2]>>, <<c[1] - 1, c[2]>>,
                                  <<c[1], c[2] - 1>>, <<c[1], c[2] + 1>> >>
                       survives(s) == s \notin visited_states \cup {c}
                                          /\ s \notin field_boundaries
                       kept == SelectSeq(rldu, survives)
                       old == Len(paths) - 1
                   IN  /\ Len(paths') = old + Len(kept)
                       /\ \A k \in 1..Len(kept) :
                             paths'[old + k] = Append(paths[i], kept[k])
                       /\ \A k \in (old + 1)..Len(paths') : Last(paths'[k]) # c
      ]_vars

\* the last expansion appended at least two paths: the worklist ends with two
\* extensions of one path whose last state is visited
C15_Witness ==
    /\ pc = "dfs"
    /\ Len(paths) >= 3
    /\ LET a == paths[Len(paths) - 1]
           b == paths[Len(paths)]
       IN  /\ Len(a) >= 3 /\ Len(b) = Len(a)
           /\ SubSeq(a, 1, Len(a) - 1) = SubSeq(b, 1, Len(b) - 1)
           /\ a[Len(a) - 1] \in visited_states
           /\ Last(a)[1] = a[Len(a) - 1][1] - 1
           /\ Last(b)[2] = a[Len(a) - 1][2] + 1

(***************************************************************************)
(* C16, as stated: within one planner run no state is expanded twice: the  *)
(* state an expanding iteration takes from the worklist is not yet in the  *)
(* visited set, which the iteration therefore enlarges by that state.      *)
(***************************************************************************)
C16_ExpandedAtMostOnce ==
    [][ (pc = "dfs" /\ Len(paths) > 0 /\ pc' = "dfs") =>
            visited_states' # visited_states ]_vars

(***************************************************************************)
(* C16, amended: the visited set is consulted when a path is appended, not *)
(* when one is taken from the worklist.  An expanding iteration adds at    *)
(* most the expanded state to the visited set, and every path it appends   *)
(* ends in a state that is not visited at that moment; a state that stands *)
(* in the worklist at the end of several paths is expanded once for each.  *)
(***************************************************************************)
C16_VisitedIsCheckedOnAppend ==
    [][ (pc = "dfs" /\ Len(paths) > 0 /\ pc' = "dfs") =>
            /\ visited_states \subseteq visited_states'
            /\ Cardinality(visited_states') <= Cardinality(visited_states) + 1
            /\ \A k \in Len(paths)..Len(paths') :
                  Last(paths'[k]) \notin visited_states'
      ]_vars

\* the path the loop takes next, the first of the closest, ends in a state that
\* is visited already, and the goal is not that state
C16_Witness ==
    /\ pc = "dfs"
    /\ Len(paths) > 0
    /\ \E i \in 1..Len(paths) :
          /\ \A j \in 1..Len(paths) :
                Dist2(goal, Last(paths[i])) <= Dist2(goal, Last(paths[j]))
          /\ \A j \in 1..(i - 1) :
                Dist2(goal, Last(paths[i])) < Dist2(goal, Last(paths[j]))
          /\ Last(paths[i]) \in visited_states
          /\ Last(paths[i]) # goal

(***************************************************************************)
(* C17: every path of the planner's worklist, and every stored plan, holds *)
(* each of its states once, and no path stands twice in the worklist.      *)
(***************************************************************************)
C17_PathsAreSimple ==
    /\ \A k \in 1..Len(paths) :
          \A a, b \in 1..Len(paths[k]) : paths[k][a] = paths[k][b] => a = b
    /\ \A k, l \in 1..Len(paths) : paths[k] = paths[l] => k = l
    /\ \A a, b \in 1..Len(path) : path[a] = path[b] => a = b

\* two different paths of the worklist end in the same state
C17_Witness ==
    /\ pc = "dfs"
    /\ \E k, l \in 1..Len(paths) :
          /\ k < l
          /\ Last(paths[k]) = Last(paths[l])
          /\ Len(paths[k]) = Len(paths[l])
          /\ paths[k] # paths[l]

(***************************************************************************)
(* C18: between two calls, whenever a plan is stored the cursor is an      *)
(* index of it: 0 <= path_move_index <= len(path) - 1.                     *)
(***************************************************************************)
C18_CursorIsAnIndexOfThePlan ==
    (pc = "ready" /\ Len(path) > 0) =>
        (0 <= path_move_index /\ path_move_index <= Len(path) - 1)

(***************************************************************************)
(* C19: with the returned moves applied to the player and the player moved *)
(* in no other way, a call that finds a plan stored finds the player on    *)
(* plan[cursor], and a move it returns leads the player to a cell that is  *)
(* not among the drive locations of the call's snapshot.                   *)
(***************************************************************************)
C19_PlayerStandsOnTheCursor ==
    /\ []((pc = "ready" /\ Len(path) > 0) =>
              /\ PyIndexOK(path, path_move_index)
              /\ player_location = PyAt(path, path_move_index))
    /\ [][ (pc = "ready" /\ Len(path) > 0) =>
              \A d \in DriveLocationChoices :
                  (StepCall(d) /\ result' \in RealMoves) => player_location' \notin d
          ]_vars

\* C19 without the calls made with the cursor past the end of the plan
C19_PlayerStandsOnAValidCursor ==
    /\ []((pc = "ready" /\ Len(path) > 0 /\ PyIndexOK(path, path_move_index)) =>
              player_location = PyAt(path, path_move_index))
    /\ [][ (pc = "ready" /\ Len(path) > 0) =>
              \A d \in DriveLocationChoices :
                  (StepCall(d) /\ result' \in RealMoves) => player_location' \notin d
          ]_vars

====
